---- MODULE Spec2Model ----
(***************************************************************************)
(* Model of the tabular pipeline of src/streamlit_app.py: country-column   *)
(* detection, wide/long reshaping (to_wide_by_country, both definitions    *)
(* the file holds), row normalisation (normalize_rows_to_100), join-key    *)
(* normalisation (norm_name, fix_name_for_join), the capitals load with    *)
(* its fallback, the left merge and the climate classification.            *)
(*                                                                         *)
(* A Python str is a sequence of one-character strings, so that lower(),   *)
(* upper(), strip() and the two re.sub calls are computed character by     *)
(* character.  A float is an exact fraction n/d (d > 0, lowest terms) or   *)
(* NaN; infinities are outside the model.                                  *)
(***************************************************************************)
EXTENDS Integers, Sequences, FiniteSets, TLC

VARIABLES pc, df, res1, res2, wide, wide_norm, capitals_df, geo, name_in, join_key

vars == <<pc, df, res1, res2, wide, wide_norm, capitals_df, geo, name_in, join_key>>

(***************************************************************************)
(* Characters and the str methods the code calls                           *)
(***************************************************************************)
UpperChars == <<"A","B","C","D","E","F","G","H","I","J","K","L","M",
                "N","O","P","Q","R","S","T","U","V","W","X","Y","Z">>

LowerChars == <<"a","b","c","d","e","f","g","h","i","j","k","l","m",
                "n","o","p","q","r","s","t","u","v","w","x","y","z">>

UpperSet == {UpperChars[i] : i \in DOMAIN UpperChars}

LowerSet == {LowerChars[i] : i \in DOMAIN LowerChars}

DigitChars == <<"0","1","2","3","4","5","6","7","8","9">>

DigitSet == {DigitChars[i] : i \in DOMAIN DigitChars}

\* Caseless letters: the Hangul syllables of the code's literals, each one
\* character, written by code point (U+AD6D U+AC00 is the header of line 9).
HangulSet == {"U+AD6D","U+AC00","U+BA85","U+C720","U+D615","U+BE44",
              "U+C728","U+D37C","U+C13C","U+D2B8","U+AC12"}

\* Characters matched by \s.
WhiteSpace == {" ", "\t"}

\* Characters matched by \w (str patterns are Unicode-aware in Python 3).
WordChars == UpperSet \cup LowerSet \cup DigitSet \cup HangulSet \cup {"_"}

ToLowerFn == [c \in UpperSet |-> LowerChars[CHOOSE i \in DOMAIN UpperChars : UpperChars[i] = c]]

ToUpperFn == [c \in LowerSet |-> UpperChars[CHOOSE i \in DOMAIN LowerChars : LowerChars[i] = c]]

str_lower(s) == [i \in 1..Len(s) |-> IF s[i] \in UpperSet THEN ToLowerFn[s[i]] ELSE s[i]]

str_upper(s) == [i \in 1..Len(s) |-> IF s[i] \in LowerSet THEN ToUpperFn[s[i]] ELSE s[i]]

SetMin(S) == CHOOSE x \in S : \A y \in S : x <= y

SetMax(S) == CHOOSE x \in S : \A y \in S : x >= y

str_strip(s) ==
    LET keep == {i \in 1..Len(s) : s[i] \notin WhiteSpace}
    IN  IF keep = {} THEN <<>> ELSE SubSeq(s, SetMin(keep), SetMax(keep))

\* re.sub(r"[^\w\s]", " ", s)
sub_nonword(s) ==
    [i \in 1..Len(s) |-> IF s[i] \in WordChars \cup WhiteSpace THEN s[i] ELSE " "]

\* re.sub(r"\s+", " ", s): every maximal run of whitespace becomes one space.
RECURSIVE sub_spaces(_)
sub_spaces(s) ==
    IF s = <<>> THEN <<>>
    ELSE IF s[1] \notin WhiteSpace THEN <<s[1]>> \o sub_spaces(Tail(s))
    ELSE IF Len(s) > 1 /\ s[2] \in WhiteSpace THEN sub_spaces(Tail(s))
    ELSE <<" ">> \o sub_spaces(Tail(s))

(***************************************************************************)
(* Cell values.  A cell of a DataFrame is a str, a float or nan; all three *)
(* are records of one shape: k is the kind, s the characters of a str,     *)
(* n/d the fraction of a float.                                            *)
(***************************************************************************)
Str(s) == [k |-> "str", s |-> s, n |-> 0, d |-> 1]

nan == [k |-> "nan", s |-> <<>>, n |-> 0, d |-> 1]

Abs(x) == IF x < 0 THEN -x ELSE x

RECURSIVE Gcd(_, _)
Gcd(a, b) == IF b = 0 THEN a ELSE Gcd(b, a % b)

\* The float n/d, in lowest terms with a positive denominator.
Float(n, d) ==
    LET g == Gcd(Abs(n), Abs(d))
        sgn == IF d < 0 THEN -1 ELSE 1
    IN  [k |-> "num", s |-> <<>>, n |-> sgn * (n \div g), d |-> sgn * (d \div g)]

isinstance_str(x) == x.k = "str"

\* pd.isna
isna(x) == x.k = "nan"

\* The result of dividing a nonzero float by zero (sgn is 1 or -1).  No
\* input of the model is infinite.
inf(sgn) == [k |-> "inf", s |-> <<>>, n |-> sgn, d |-> 1]

Sign(x) == IF x < 0 THEN -1 ELSE IF x > 0 THEN 1 ELSE 0

\* Float arithmetic on the finite floats and nan; nan propagates.
fadd(a, b) == IF isna(a) \/ isna(b) THEN nan ELSE Float(a.n * b.d + b.n * a.d, a.d * b.d)

\* a * b for a finite b # 0 (the code multiplies by 100.0 only).
fmul(a, b) ==
    IF isna(a) \/ isna(b) THEN nan
    ELSE IF a.k = "inf" THEN inf(a.n * Sign(b.n))
    ELSE Float(a.n * b.n, a.d * b.d)

\* a / b, numpy semantics: 0/0 is nan, x/0 is +-inf.
fdiv(a, b) ==
    IF isna(a) \/ isna(b) THEN nan
    ELSE IF b.n = 0 THEN (IF a.n = 0 THEN nan ELSE inf(Sign(a.n)))
    ELSE Float(a.n * b.d, a.d * b.n)

flt(a, b) == a.n * b.d < b.n * a.d

fabs(a) == IF isna(a) THEN nan ELSE Float(Abs(a.n), a.d)

(***************************************************************************)
(* Name normalisation for the join                                         *)
(***************************************************************************)
NAME_FIX ==
    << <<<<"u","n","i","t","e","d"," ","s","t","a","t","e","s">>,
         <<"u","n","i","t","e","d"," ","s","t","a","t","e","s"," ","o","f"," ","a","m","e","r","i","c","a">>>>,
       <<<<"u","s","a">>,
         <<"u","n","i","t","e","d"," ","s","t","a","t","e","s"," ","o","f"," ","a","m","e","r","i","c","a">>>>,
       <<<<"u"," ","s"," ","a">>,
         <<"u","n","i","t","e","d"," ","s","t","a","t","e","s"," ","o","f"," ","a","m","e","r","i","c","a">>>>,
       <<<<"r","u","s","s","i","a">>,
         <<"r","u","s","s","i","a","n"," ","f","e","d","e","r","a","t","i","o","n">>>>,
       <<<<"s","o","u","t","h"," ","k","o","r","e","a">>,
         <<"k","o","r","e","a"," ","r","e","p","u","b","l","i","c"," ","o","f">>>>,
       <<<<"n","o","r","t","h"," ","k","o","r","e","a">>,
         <<"k","o","r","e","a"," ","d","e","m","o","c","r","a","t","i","c"," ","p","e","o","p","l","e"," ","s"," ","r","e","p","u","b","l","i","c"," ","o","f">>>>,
       <<<<"c","z","e","c","h">>,
         <<"c","z","e","c","h","i","a">>>>,
       <<<<"c","z","e","c","h"," ","r","e","p","u","b","l","i","c">>,
         <<"c","z","e","c","h","i","a">>>>,
       <<<<"s","w","a","z","i","l","a","n","d">>,
         <<"e","s","w","a","t","i","n","i">>>>,
       <<<<"c","a","p","e"," ","v","e","r","d","e">>,
         <<"c","a","b","o"," ","v","e","r","d","e">>>>,
       <<<<"l","a","o","s">>,
         <<"l","a","o"," ","p","e","o","p","l","e"," ","s"," ","d","e","m","o","c","r","a","t","i","c"," ","r","e","p","u","b","l","i","c">>>>,
       <<<<"m","o","l","d","o","v","a">>,
         <<"m","o","l","d","o","v","a"," ","r","e","p","u","b","l","i","c"," ","o","f">>>>,
       <<<<"i","v","o","r","y"," ","c","o","a","s","t">>,
         <<"c","o","t","e"," ","d"," ","i","v","o","i","r","e">>>>,
       <<<<"b","r","u","n","e","i"," ","d","a","r","u","s","s","a","l","a","m">>,
         <<"b","r","u","n","e","i">>>>,
       <<<<"v","a","t","i","c","a","n">>,
         <<"h","o","l","y"," ","s","e","e">>>> >>

\* dict.get(k, default) on a dict written as a sequence of <<key, value>>.
dict_get(d, k, default) ==
    IF \E i \in DOMAIN d : d[i][1] = k
    THEN d[CHOOSE i \in DOMAIN d : d[i][1] = k][2]
    ELSE default

\* name is a cell; the result is a str.
norm_name(name) ==
    IF ~isinstance_str(name) THEN <<>>
    ELSE sub_spaces(sub_nonword(str_strip(str_lower(name.s))))

\* The normalised form, whatever the alias table holds.
fix_name_without_alias(s) == norm_name(s)

fix_name_for_join(s) ==
    LET s0 == norm_name(s) IN dict_get(NAME_FIX, s0, s0)

(***************************************************************************)
(* DataFrames.  A frame is the sequence of its columns, left to right; a   *)
(* column is [name, vals], vals being its cells top to bottom.  Labels may *)
(* repeat, as pandas allows.                                               *)
(***************************************************************************)
None == <<"None">>

Col(name, vals) == [name |-> name, vals |-> vals]

\* len(df): the number of rows.
NRows(t) == IF t = <<>> THEN 0 ELSE Len(t[1].vals)

\* name in df.columns
HasCol(t, name) == \E i \in DOMAIN t : t[i].name = name

\* The columns carrying one label, in frame order.
ColsNamed(t, name) == SelectSeq(t, LAMBDA c : c.name = name)

\* df[[labels]]: for every label in turn, all the columns that carry it.
RECURSIVE Select(_, _)
Select(t, labels) ==
    IF labels = <<>> THEN <<>>
    ELSE ColsNamed(t, Head(labels)) \o Select(t, Tail(labels))

\* df.rename(columns=d), d a dict as a sequence of <<old, new>>.
Rename(t, d) == [i \in DOMAIN t |-> Col(dict_get(d, t[i].name, t[i].name), t[i].vals)]

\* The distinct labels of a frame in order of first appearance: the key
\* order of a dict comprehension over df.columns.
RECURSIVE Distinct(_)
Distinct(seq) ==
    IF seq = <<>> THEN <<>>
    ELSE LET init == Distinct(SubSeq(seq, 1, Len(seq) - 1))
             last == seq[Len(seq)]
         IN  IF \E i \in DOMAIN init : init[i] = last THEN init ELSE Append(init, last)

Labels(t) == [i \in DOMAIN t |-> t[i].name]

\* pd.api.types.is_numeric_dtype(df[c]) for a column read by read_csv: a
\* column with a str cell, or with no row at all, has dtype object.
is_numeric_dtype(c) ==
    /\ Len(c.vals) > 0
    /\ \A i \in DOMAIN c.vals : c.vals[i].k # "str"

\* The value of a str of decimal digits.
RECURSIVE DigitsValue(_)
DigitsValue(s) ==
    IF s = <<>> THEN 0
    ELSE 10 * DigitsValue(SubSeq(s, 1, Len(s) - 1))
         + (CHOOSE i \in DOMAIN DigitChars : DigitChars[i] = s[Len(s)]) - 1

\* pd.to_numeric(x, errors="coerce") on one cell.  Of the str cells only
\* those of decimal digits and those with a letter in them are modelled;
\* signs, decimal points and exponents do not occur in the inputs.
to_numeric(x) ==
    IF x.k # "str" THEN x
    ELSE IF x.s # <<>> /\ \A i \in DOMAIN x.s : x.s[i] \in DigitSet
         THEN Float(DigitsValue(x.s), 1)
         ELSE nan

to_numeric_col(c) == Col(c.name, [i \in DOMAIN c.vals |-> to_numeric(c.vals[i])])

\* A column of n nan cells: wide[t] = np.nan
NanCol(name, n) == Col(name, [i \in 1..n |-> nan])

(***************************************************************************)
(* Constants of the reshaping                                              *)
(***************************************************************************)
MBTI_TYPES ==
    << <<"I","N","T","J">>, <<"I","N","T","P">>, <<"E","N","T","J">>, <<"E","N","T","P">>,
       <<"I","N","F","J">>, <<"I","N","F","P">>, <<"E","N","F","J">>, <<"E","N","F","P">>,
       <<"I","S","T","J">>, <<"I","S","F","J">>, <<"E","S","T","J">>, <<"E","S","F","J">>,
       <<"I","S","T","P">>, <<"I","S","F","P">>, <<"E","S","T","P">>, <<"E","S","F","P">> >>

MbtiSet == {MBTI_TYPES[i] : i \in DOMAIN MBTI_TYPES}

CountryCandidates ==
    << <<"C","o","u","n","t","r","y">>,
       <<"c","o","u","n","t","r","y">>,
       <<"U+AD6D","U+AC00">>,
       <<"U+AD6D","U+AC00","U+BA85">>,
       <<"N","a","t","i","o","n">>,
       <<"R","e","g","i","o","n">>,
       <<"C","o","u","n","t","r","y","/","R","e","g","i","o","n">> >>

TypeAliases ==
    << <<"t","y","p","e">>, <<"m","b","t","i">>,
       <<"m","b","t","i","_","t","y","p","e">>, <<"U+C720","U+D615">> >>

ValueAliases ==
    << <<"v","a","l","u","e">>, <<"p","e","r","c","e","n","t">>,
       <<"p","e","r","c","e","n","t","a","g","e">>, <<"r","a","t","i","o">>,
       <<"U+BE44","U+C728">>, <<"U+D37C","U+C13C","U+D2B8">>, <<"U+AC12">> >>

s_Country == <<"C","o","u","n","t","r","y">>

s_Type == <<"T","y","p","e">>

s_Value == <<"V","a","l","u","e">>

\* The wide-shape threshold: len(mbti_cols_present) >= 4
WideThreshold == 4

(***************************************************************************)
(* What to_wide_by_country returns or raises.                              *)
(* A result is a record: err is "" on return and names the exception        *)
(* otherwise; wide and country_col are the returned pair.  Two fields      *)
(* record the path taken: shape is the branch entered ("wide", "long", or  *)
(* "" when neither was), detected is the value auto_detect_country_col     *)
(* returned.                                                               *)
(***************************************************************************)
Return(t, cc, shape) ==
    [err |-> "", wide |-> t, country_col |-> cc, shape |-> shape, detected |-> None]

Raise(e, shape) ==
    [err |-> e, wide |-> <<>>, country_col |-> <<>>, shape |-> shape, detected |-> None]

Detected(r, name) == [r EXCEPT !.detected = name]

\* The two ValueErrors the function raises itself.
NoCountryColumn == "ValueError: no country column"

UnrecognizedLayout == "ValueError: unrecognized layout"

\* Python truthiness of an Optional[str]
Truthy(x) == x # None /\ x # <<>>

\* df.columns = [str(c).strip() for c in df.columns]
strip_columns(t) == [i \in DOMAIN t |-> Col(str_strip(t[i].name), t[i].vals)]

(***************************************************************************)
(* Country-column detection                                                *)
(***************************************************************************)
\* A detection that scans the columns in frame order for a candidate name.
auto_detect_in_table_order(df_) ==
    LET hits   == {i \in DOMAIN df_ : \E k \in DOMAIN CountryCandidates :
                                         df_[i].name = CountryCandidates[k]}
        nonnum == {i \in DOMAIN df_ : ~is_numeric_dtype(df_[i])}
    IN  IF hits # {} THEN df_[SetMin(hits)].name
        ELSE IF nonnum # {} THEN df_[SetMin(nonnum)].name
        ELSE None

\* A detection whose fallback takes the first column whatever its dtype.
auto_detect_first_column(df_) ==
    LET hits == {k \in DOMAIN CountryCandidates : HasCol(df_, CountryCandidates[k])}
    IN  IF hits # {} THEN CountryCandidates[SetMin(hits)]
        ELSE IF df_ # <<>> THEN df_[1].name
        ELSE None

\* The nested helper of the first to_wide_by_country.
auto_detect_country_col_first(df_) ==
    LET hits   == {k \in DOMAIN CountryCandidates : HasCol(df_, CountryCandidates[k])}
        nonnum == {i \in DOMAIN df_ : ~is_numeric_dtype(df_[i])}
    IN  IF hits # {} THEN CountryCandidates[SetMin(hits)]
        ELSE IF nonnum # {} THEN df_[SetMin(nonnum)].name
        ELSE None

\* The module-level function, the one the second to_wide_by_country calls.
auto_detect_country_col(df_) ==
    LET hits   == {k \in DOMAIN CountryCandidates : HasCol(df_, CountryCandidates[k])}
        nonnum == {i \in DOMAIN df_ : ~is_numeric_dtype(df_[i])}
    IN  IF hits # {} THEN CountryCandidates[SetMin(hits)]
        ELSE IF nonnum # {} THEN df_[SetMin(nonnum)].name
        ELSE None

(***************************************************************************)
(* MBTI column detection and the wide shape                                *)
(***************************************************************************)
\* up_map = {c: c.upper().strip() for c in df.columns}
UpMap(t) ==
    LET keys == Distinct(Labels(t))
    IN  [i \in DOMAIN keys |-> <<keys[i], str_strip(str_upper(keys[i]))>>]

\* mbti_cols_present = [orig for orig, up in up_map.items() if up in MBTI_TYPES]
MbtiColsPresent(up_map) ==
    LET hit == SelectSeq(up_map, LAMBDA kv : kv[2] \in MbtiSet)
    IN  [i \in DOMAIN hit |-> hit[i][1]]

\* The end of the wide branch, the same statements in both definitions:
\*   for t in MBTI_TYPES: if t not in wide.columns: wide[t] = np.nan
\*   for t in MBTI_TYPES: wide[t] = pd.to_numeric(wide[t], errors="coerce")
\*   wide = wide[[country_col] + MBTI_TYPES]
\* wide[t] is a DataFrame when two columns carry the label t, and
\* pd.to_numeric raises TypeError on a DataFrame; the last selection raises
\* KeyError when no column carries the label country_col.
finish_wide(w, country_col) ==
    LET missing == SelectSeq(MBTI_TYPES, LAMBDA t : ~HasCol(w, t))
        w2 == w \o [i \in DOMAIN missing |-> NanCol(missing[i], NRows(w))]
    IN  IF \E t \in MbtiSet : Len(ColsNamed(w2, t)) > 1
        THEN Raise("TypeError", "wide")
        ELSE LET w3 == [i \in DOMAIN w2 |->
                          IF w2[i].name \in MbtiSet THEN to_numeric_col(w2[i]) ELSE w2[i]]
             IN  IF ~HasCol(w3, country_col)
                 THEN Raise("KeyError", "wide")
                 ELSE Return(Select(w3, <<country_col>> \o MBTI_TYPES), country_col, "wide")

(***************************************************************************)
(* The long shape                                                          *)
(***************************************************************************)
\* Characters in code-point order, for the sorted index of pivot_table.
CodePointOrder ==
    <<"\t", " ", "&", "'", "(", ")", ",", "-", ".", "/">> \o DigitChars \o UpperChars
    \o <<"_">> \o LowerChars
    \o <<"U+AC00","U+AC12","U+AD6D","U+BA85","U+BE44","U+C13C",
         "U+C720","U+C728","U+D2B8","U+D37C","U+D615">>

Ord(c) == CHOOSE i \in DOMAIN CodePointOrder : CodePointOrder[i] = c

\* a < b on str
RECURSIVE str_lt(_, _)
str_lt(a, b) ==
    IF b = <<>> THEN FALSE
    ELSE IF a = <<>> THEN TRUE
    ELSE IF a[1] = b[1] THEN str_lt(Tail(a), Tail(b))
    ELSE Ord(a[1]) < Ord(b[1])

\* The order of group keys; the keys of one column are all str or all float.
key_lt(a, b) == IF a.k = "str" THEN str_lt(a.s, b.s) ELSE flt(a, b)

RECURSIVE sorted(_)
sorted(S) ==
    IF S = {} THEN <<>>
    ELSE LET m == CHOOSE x \in S : \A y \in S \ {x} : key_lt(x, y)
         IN  <<m>> \o sorted(S \ {m})

RECURSIVE DigitsOf(_)
DigitsOf(n) ==
    IF n < 10 THEN <<DigitChars[n + 1]>>
    ELSE Append(DigitsOf(n \div 10), DigitChars[(n % 10) + 1])

\* .astype(str) on one cell; of the floats only whole numbers are modelled.
astype_str(x) ==
    IF x.k = "str" THEN x.s
    ELSE IF x.k = "nan" THEN <<"n","a","n">>
    ELSE (IF x.n < 0 THEN <<"-">> ELSE <<>>) \o DigitsOf(Abs(x.n) \div x.d) \o <<".","0">>

\* lower = {c.lower(): c for c in df.columns};
\* next((lower[c] for c in aliases if c in lower), None)
AliasCol(t, aliases) ==
    LET present(a) == {i \in DOMAIN t : str_lower(t[i].name) = a}
        hits == {k \in DOMAIN aliases : present(aliases[k]) # {}}
    IN  IF hits = {} THEN None
        ELSE t[SetMax(present(aliases[SetMin(hits)]))].name

\* long.pivot_table(index=country_col, columns="Type", values="Value",
\*                  aggfunc="mean").reset_index()
\* on the frame long = <<country column, Type column, Value column>>.
\* groupby drops the rows whose key is nan, mean skips nan values, a
\* (country, type) group without a number is dropped before unstacking
\* (dropna=True), so a country all of whose groups are dropped has no row;
\* the index is sorted.  The result has one column per type that is left.
pivot_table_mean(long, country_col) ==
    LET rows   == {i \in 1..NRows(long) : ~isna(long[1].vals[i])}
        vals(c, t) ==
            {i \in rows : /\ long[1].vals[i] = c
                          /\ long[2].vals[i] = Str(t)
                          /\ ~isna(long[3].vals[i])}
        mean(c, t) ==
            LET idx == vals(c, t)
                RECURSIVE total(_)
                total(I) == IF I = {} THEN Float(0, 1)
                            ELSE LET i == CHOOSE i \in I : TRUE
                                 IN  fadd(long[3].vals[i], total(I \ {i}))
            IN  IF idx = {} THEN nan ELSE fdiv(total(idx), Float(Cardinality(idx), 1))
        keys   == {long[1].vals[i] : i \in {j \in rows : vals(long[1].vals[j], long[2].vals[j].s) # {}}}
        index  == sorted(keys)
        kept   == SelectSeq(MBTI_TYPES, LAMBDA t : \E c \in keys : vals(c, t) # {})
    IN  <<Col(country_col, index)>>
        \o [k \in DOMAIN kept |-> Col(kept[k], [r \in DOMAIN index |-> mean(index[r], kept[k])])]

\* A long branch that is entered when either alias column is found.
long_format_either(d, country_col) ==
    LET type_col  == AliasCol(d, TypeAliases)
        value_col == AliasCol(d, ValueAliases)
    IN  IF Truthy(type_col) \/ Truthy(value_col)
        THEN Raise("KeyError", "long")
        ELSE Raise(UnrecognizedLayout, "")

\* The long branch, the same statements in both definitions.  After
\* long.columns = [country_col, "Type", "Value"] two columns carry one label
\* when country_col is "Type" or "Value": long["Type"] is then a DataFrame,
\* which has no .str (AttributeError), and pd.to_numeric(long["Value"])
\* raises TypeError.
long_format(d, country_col) ==
    LET type_col  == AliasCol(d, TypeAliases)
        value_col == AliasCol(d, ValueAliases)
    IN  IF Truthy(type_col) /\ Truthy(value_col)
        THEN LET sel == Select(d, <<country_col, type_col, value_col>>)
             IN  IF Len(sel) # 3
                 THEN Raise("ValueError: length mismatch", "long")
                 ELSE IF country_col = s_Type THEN Raise("AttributeError", "long")
                 ELSE IF country_col = s_Value THEN Raise("TypeError", "long")
                 ELSE
                 LET up == [i \in 1..NRows(sel) |->
                              Str(str_strip(str_upper(astype_str(sel[2].vals[i]))))]
                     isin == SelectSeq([i \in 1..NRows(sel) |-> i],
                                       LAMBDA i : up[i].s \in MbtiSet)
                     long == << Col(country_col, [j \in DOMAIN isin |-> sel[1].vals[isin[j]]]),
                                Col(s_Type,      [j \in DOMAIN isin |-> up[isin[j]]]),
                                Col(s_Value,     [j \in DOMAIN isin |-> to_numeric(sel[3].vals[isin[j]])]) >>
                     piv  == pivot_table_mean(long, country_col)
                     missing == SelectSeq(MBTI_TYPES, LAMBDA t : ~HasCol(piv, t))
                     w2   == piv \o [i \in DOMAIN missing |-> NanCol(missing[i], NRows(piv))]
                 IN  Return(Select(w2, <<country_col>> \o MBTI_TYPES), country_col, "long")
        ELSE Raise(UnrecognizedLayout, "")

(***************************************************************************)
(* to_wide_by_country                                                      *)
(***************************************************************************)
\* The first definition (top of the file): the detected country column is
\* renamed to "Country", and only the MBTI columns are upper-cased.
to_wide_by_country_first(df0) ==
    LET d1 == strip_columns(df0)
        detected == auto_detect_country_col_first(d1)
    IN  IF ~Truthy(detected) THEN Detected(Raise(NoCountryColumn, ""), detected)
        ELSE
        LET d2 == IF detected # s_Country
                  THEN Rename(d1, << <<detected, s_Country>> >>)
                  ELSE d1
            country_col == s_Country
            up_map == UpMap(d2)
            mbti_cols_present == MbtiColsPresent(up_map)
        IN  IF Len(mbti_cols_present) >= WideThreshold
            THEN LET sel == Select(d2, <<country_col>> \o mbti_cols_present)
                     rename_map == [i \in DOMAIN mbti_cols_present |->
                                      <<mbti_cols_present[i],
                                        dict_get(up_map, mbti_cols_present[i], None)>>]
                 IN  Detected(finish_wide(Rename(sel, rename_map), country_col), detected)
            ELSE Detected(long_format(d2, country_col), detected)

\* The second definition, which rebinds the name and is the one the script
\* calls: no renaming of the country column, and wide.rename(columns=up_map)
\* upper-cases every selected label, the country column's too.
to_wide_by_country(df0) ==
    LET d == strip_columns(df0)
        country_col == auto_detect_country_col(d)
    IN  IF ~Truthy(country_col) THEN Detected(Raise(NoCountryColumn, ""), country_col)
        ELSE
        LET up_map == UpMap(d)
            mbti_cols_present == MbtiColsPresent(up_map)
        IN  IF Len(mbti_cols_present) >= WideThreshold
            THEN LET sel == Select(d, <<country_col>> \o mbti_cols_present)
                 IN  Detected(finish_wide(Rename(sel, up_map), country_col), country_col)
            ELSE Detected(long_format(d, country_col), country_col)

(***************************************************************************)
(* Inputs of the reshaping: frames as read_csv returns them                *)
(***************************************************************************)
s_X == <<"X">>

s_Y == <<"Y">>

num(n) == Float(n, 1)

\* The columns the frames of SpecShape are made of, two rows each.
ShapePool ==
    << Col(<<"C","o","u","n","t","r","y">>, <<Str(s_X), Str(s_Y)>>),
       Col(<<"I","N","T","J">>,             <<num(10), nan>>),
       Col(<<"i","n","t","j">>,             <<num(5), num(5)>>),
       Col(<<"I","N","T","P">>,             <<Str(<<"2","0">>), Str(<<"n","/","a">>)>>),
       Col(<<"E","N","T","J">>,             <<num(30), num(0)>>),
       Col(<<"e","n","t","p">>,             <<num(40), num(0)>>),
       Col(<<"T","y","p","e">>,             <<Str(<<"I","N","F","P">>), Str(<<" ","i","n","f","p">>)>>),
       Col(<<"V","a","l","u","e">>,         <<num(10), num(20)>>) >>

\* The most columns a frame of SpecShape has.
MaxCols == 7

Range(f) == {f[i] : i \in DOMAIN f}

NoResult == Raise("not called", "")

NoFrame == <<>>

\* capitals_df = None, the value the script gives it before the load.
NoCapitals == [loaded |-> FALSE, frame |-> <<>>]

NoName == <<>>

(***************************************************************************)
(* SpecShape: to_wide_by_country on every arrangement of at most MaxCols   *)
(* columns of ShapePool                                                    *)
(***************************************************************************)
InitShape ==
    /\ pc = "read"
    /\ df = <<>>
    /\ res1 = NoResult
    /\ res2 = NoResult
    /\ wide = NoFrame
    /\ wide_norm = NoFrame
    /\ capitals_df = NoCapitals
    /\ geo = NoFrame
    /\ name_in = NoName
    /\ join_key = NoName

\* robust_read_csv, one column of the file at a time: the frame gets the
\* next column, any column of the pool it does not have yet.
ReadColumn(pool, max) ==
    /\ pc = "read"
    /\ Len(df) < max
    /\ \E i \in DOMAIN pool :
          /\ pool[i] \notin Range(df)
          /\ df' = Append(df, pool[i])
    /\ UNCHANGED <<pc, res1, res2, wide, wide_norm, capitals_df, geo, name_in, join_key>>

ReadShapeColumn == ReadColumn(ShapePool, MaxCols)

\* wide, country_col = to_wide_by_country(mbti_df), with the exception
\* handler that stops the script.  res2 is what the call returns or raises
\* (the name is bound to the second definition); res1 is what the first
\* definition returns or raises on the same frame.
ToWide ==
    /\ pc = "read"
    /\ res1' = to_wide_by_country_first(df)
    /\ res2' = to_wide_by_country(df)
    /\ wide' = res2'.wide
    /\ pc' = IF res2'.err = "" THEN "wide" ELSE "stopped"
    /\ UNCHANGED <<df, wide_norm, capitals_df, geo, name_in, join_key>>

NextShape == ReadShapeColumn \/ ToWide

SpecShape == InitShape /\ [][NextShape]_vars

(***************************************************************************)
(* SpecDetect: the same script step on frames made of DetectPool, whose    *)
(* columns differ in header (candidate or not) and in dtype                *)
(***************************************************************************)
DetectPool ==
    << Col(<<"R","e","g","i","o","n">>,         <<Str(s_X), Str(s_Y)>>),
       Col(<<"C","o","u","n","t","r","y">>,     <<Str(s_X), Str(s_Y)>>),
       Col(<<" ","c","o","u","n","t","r","y">>, <<Str(s_Y), Str(s_X)>>),
       Col(<<"U+AD6D","U+AC00">>,               <<Str(s_Y), Str(s_Y)>>),
       Col(<<"N","a","t","i","o","n">>,         <<num(1), num(2)>>),
       Col(<<"N","a","m","e">>,                 <<Str(s_X), nan>>),
       Col(<<"S","c","o","r","e">>,             <<num(3), nan>>),
       Col(<<"I","N","T","J">>,                 <<num(10), num(20)>>) >>

\* The most columns a frame of SpecDetect has.
MaxDetectCols == 4

ReadDetectColumn == ReadColumn(DetectPool, MaxDetectCols)

NextDetect == ReadDetectColumn \/ ToWide

SpecDetect == InitShape /\ [][NextDetect]_vars

(***************************************************************************)
(* Vocabulary of the properties, read off the frame itself                 *)
(***************************************************************************)
\* The headers of a frame, trimmed.
Headers(t) == [i \in DOMAIN t |-> str_strip(t[i].name)]

IsCandidate(name) == \E k \in DOMAIN CountryCandidates : CountryCandidates[k] = name

\* The MBTI type a header stands for, if any: trimmed and upper-cased.
TypeOf(name) == str_strip(str_upper(name))

\* The positions of the headers that stand for an MBTI type.
TypeColumns(labels) == {i \in DOMAIN labels : TypeOf(labels[i]) \in MbtiSet}

\* The columns with a value that is not a number.
NonNumericCols(t) == {i \in DOMAIN t : \E r \in DOMAIN t[i].vals : t[i].vals[r].k = "str"}

HasAlias(labels, aliases) ==
    \E i \in DOMAIN labels : \E k \in DOMAIN aliases : str_lower(labels[i]) = aliases[k]

Called == pc # "read"

(***************************************************************************)
(* C1, stated of both definitions of to_wide_by_country.                   *)
(* For every frame with a detected country column that is not itself a     *)
(* type column and with at least 4 columns whose trimmed, upper-cased      *)
(* header is an MBTI type, to_wide_by_country returns 17 columns: the      *)
(* country column, then the 16 types in canonical order, a type absent     *)
(* from the input being nan in every row.                                  *)
(***************************************************************************)
C1_Canonical17 ==
    (/\ Called
     /\ Truthy(res1.detected)
     /\ TypeOf(res1.detected) \notin MbtiSet
     /\ Cardinality(TypeColumns(Headers(df))) >= 4)
    => \A res \in {res1, res2} :
          /\ res.err = ""
          /\ Labels(res.wide) = <<res.country_col>> \o MBTI_TYPES
          /\ \A k \in DOMAIN MBTI_TYPES :
                (\A i \in DOMAIN df : TypeOf(df[i].name) # MBTI_TYPES[k])
                => \A r \in DOMAIN res.wide[k + 1].vals : isna(res.wide[k + 1].vals[r])

(***************************************************************************)
(* C3 as claimed: when some header is a candidate name, detection returns  *)
(* the first such header in the order of the frame's columns.              *)
(***************************************************************************)
C3_FirstInTableOrder ==
    LET H == Headers(df)
        hits == {i \in DOMAIN H : IsCandidate(H[i])}
    IN  (Called /\ hits # {}) => res1.detected = H[SetMin(hits)]

(***************************************************************************)
(* C3 as amended: when some header is a candidate name, detection (in both *)
(* definitions) returns the candidate that comes first in the candidate    *)
(* list among those present, wherever its column stands in the frame.      *)
(***************************************************************************)
C3_FirstInCandidateOrder ==
    LET H == Headers(df)
        present == {k \in DOMAIN CountryCandidates :
                      \E i \in DOMAIN H : H[i] = CountryCandidates[k]}
    IN  (Called /\ present # {})
        => /\ res1.detected = CountryCandidates[SetMin(present)]
           /\ res2.detected = CountryCandidates[SetMin(present)]

\* A frame where Region stands before Country, and Country was detected.
C3_Witness ==
    /\ Called
    /\ \E i, j \in DOMAIN df :
          /\ i < j
          /\ df[i].name = <<"R","e","g","i","o","n">>
          /\ df[j].name = s_Country
    /\ res1.detected = s_Country

(***************************************************************************)
(* C4: when no header is a candidate name, detection returns the first     *)
(* column (in frame order) that has a non-numeric value, and when there is *)
(* none (all columns numeric, or no column) to_wide_by_country raises the  *)
(* no-country-column error, having entered neither branch and returning no *)
(* frame.  Both definitions.                                               *)
(***************************************************************************)
C4_Fallback ==
    LET H == Headers(df)
        nn == NonNumericCols(df)
    IN  (Called /\ \A i \in DOMAIN H : ~IsCandidate(H[i]))
        => /\ nn # {} => /\ res1.detected = H[SetMin(nn)]
                         /\ res2.detected = H[SetMin(nn)]
           /\ nn = {} => \A r \in {res1, res2} :
                            /\ r.err = NoCountryColumn
                            /\ r.shape = ""
                            /\ r.wide = <<>>

\* A frame of numeric columns only, on which the call raised the error.
C4_Witness ==
    /\ Called
    /\ Len(df) >= 2
    /\ NonNumericCols(df) = {}
    /\ \A i \in DOMAIN df : ~IsCandidate(Headers(df)[i])
    /\ res2.err = NoCountryColumn
    /\ pc = "stopped"

(***************************************************************************)
(* C5: with a detected country column, the unrecognized-layout error is    *)
(* raised exactly when fewer than 4 type columns are detected and the      *)
(* frame lacks a type-alias column or a value-alias column; 4 or more type *)
(* columns take the wide branch whatever else the frame holds, and fewer   *)
(* than 4 with both alias columns take the long branch.  The columns are   *)
(* those the decision reads: in the first definition the frame whose       *)
(* country column has been renamed to Country, in the second the frame as  *)
(* read.                                                                   *)
(***************************************************************************)
LayoutRule(r, labels) ==
    LET ntypes == Cardinality(TypeColumns(labels))
        both   == HasAlias(labels, TypeAliases) /\ HasAlias(labels, ValueAliases)
    IN  /\ r.err = UnrecognizedLayout <=> (ntypes < WideThreshold /\ ~both)
        /\ ntypes >= WideThreshold => r.shape = "wide"
        /\ (ntypes < WideThreshold /\ both) => r.shape = "long"

CountryRenamed(labels, detected) ==
    [i \in DOMAIN labels |-> IF labels[i] = detected THEN s_Country ELSE labels[i]]

C5_Layout ==
    Called =>
      /\ Truthy(res1.detected) => LayoutRule(res1, CountryRenamed(Headers(df), res1.detected))
      /\ Truthy(res2.detected) => LayoutRule(res2, Headers(df))

\* A frame with a Country column, 4 type columns, a Type and a Value column,
\* reshaped as wide.
C5_Witness ==
    /\ Called
    /\ res1.detected = s_Country
    /\ Cardinality(TypeColumns(Headers(df))) >= 4
    /\ HasAlias(Headers(df), TypeAliases)
    /\ HasAlias(Headers(df), ValueAliases)
    /\ res1.shape = "wide"
    /\ res1.err = ""

(***************************************************************************)
(* SpecLong: to_wide_by_country on long frames (Country, Type, Value) of   *)
(* at most MaxLongRows rows, each row one of LongRows                      *)
(***************************************************************************)
s_INFP == <<"I","N","F","P">>

s_INTJ == <<"I","N","T","J">>

LongRows ==
    << <<Str(s_X), Str(s_INFP),                      num(10)>>,
       <<Str(s_X), Str(<<" ","i","n","f","p">>),     num(20)>>,
       <<Str(s_X), Str(s_INFP),                      nan>>,
       <<Str(s_X), Str(s_INTJ),                      num(20)>>,
       <<Str(s_X), Str(<<"A","B","C","D">>),         num(10)>>,
       <<Str(s_Y), Str(s_INFP),                      num(10)>>,
       <<Str(s_Y), Str(s_INTJ),                      nan>>,
       <<Str(s_Y), nan,                              num(20)>>,
       <<Str(<<"A","a">>), Str(<<"i","n","t","j"," ">>), num(5)>>,
       <<nan,      Str(s_INFP),                      num(20)>> >>

\* The most rows a frame of SpecLong has.
MaxLongRows == 3

InitLong ==
    /\ pc = "read"
    /\ df = <<Col(s_Country, <<>>), Col(s_Type, <<>>), Col(s_Value, <<>>)>>
    /\ res1 = NoResult
    /\ res2 = NoResult
    /\ wide = NoFrame
    /\ wide_norm = NoFrame
    /\ capitals_df = NoCapitals
    /\ geo = NoFrame
    /\ name_in = NoName
    /\ join_key = NoName

\* robust_read_csv, one line of the file at a time.
ReadLongRow ==
    /\ pc = "read"
    /\ NRows(df) < MaxLongRows
    /\ \E k \in DOMAIN LongRows :
          df' = [i \in DOMAIN df |-> Col(df[i].name, Append(df[i].vals, LongRows[k][i]))]
    /\ UNCHANGED <<pc, res1, res2, wide, wide_norm, capitals_df, geo, name_in, join_key>>

NextLong == ReadLongRow \/ ToWide

SpecLong == InitLong /\ [][NextLong]_vars

(***************************************************************************)
(* C6: on a long frame the result has one row per country of the rows with *)
(* a valid type, one column per MBTI type; the value of (country, type) is *)
(* the arithmetic mean of the numeric values of the input rows with that   *)
(* pair, and nan when there is none.  Both definitions.                    *)
(***************************************************************************)
\* The rows of the long frame whose type, upper-cased and trimmed, is one
\* of the 16, and whose country is present.
ValidRows(t) ==
    {i \in 1..NRows(t) : /\ t[2].vals[i].k = "str"
                         /\ TypeOf(t[2].vals[i].s) \in MbtiSet
                         /\ ~isna(t[1].vals[i])}

RECURSIVE SumOver(_, _)
SumOver(vals, I) ==
    IF I = {} THEN Float(0, 1)
    ELSE LET i == CHOOSE i \in I : TRUE IN fadd(vals[i], SumOver(vals, I \ {i}))

MeanOrNan(t, c, ty) ==
    LET I == {i \in ValidRows(t) : /\ t[1].vals[i] = c
                                   /\ TypeOf(t[2].vals[i].s) = ty
                                   /\ t[3].vals[i].k = "num"}
    IN  IF I = {} THEN nan ELSE fdiv(SumOver(t[3].vals, I), Float(Cardinality(I), 1))

LongPivoted(res, t) ==
    LET countries == {t[1].vals[i] : i \in ValidRows(t)}
    IN  /\ res.err = ""
        /\ res.shape = "long"
        /\ Labels(res.wide) = <<res.country_col>> \o MBTI_TYPES
        /\ Range(res.wide[1].vals) = countries
        /\ NRows(res.wide) = Cardinality(countries)
        /\ \A r \in 1..NRows(res.wide) : \A k \in DOMAIN MBTI_TYPES :
              res.wide[k + 1].vals[r] = MeanOrNan(t, res.wide[1].vals[r], MBTI_TYPES[k])

C6_OneRowPerCountry ==
    Called => \A res \in {res1, res2} : LongPivoted(res, df)

(***************************************************************************)
(* Row normalisation                                                       *)
(***************************************************************************)
\* Series.sum(skipna=True) over the cells of one row.
RECURSIVE sum_skipna(_)
sum_skipna(cells) ==
    IF cells = <<>> THEN Float(0, 1)
    ELSE IF isna(Head(cells)) THEN sum_skipna(Tail(cells))
    ELSE fadd(Head(cells), sum_skipna(Tail(cells)))

\* A row sum that is left as it is.
keep_zero(x) == x

\* .replace(0, np.nan) on one row sum
replace_zero(x) == IF x.k = "num" /\ x.n = 0 THEN nan ELSE x

normalize_rows_to_100(w, country_col) ==
    LET X == Select(w, MBTI_TYPES)
        row_sum == [r \in 1..NRows(w) |->
                      replace_zero(sum_skipna([k \in DOMAIN X |-> X[k].vals[r]]))]
    IN  [i \in DOMAIN w |->
           IF w[i].name \in MbtiSet
           THEN Col(w[i].name,
                    [r \in DOMAIN w[i].vals |->
                       fmul(fdiv(w[i].vals[r], row_sum[r]), Float(100, 1))])
           ELSE w[i]]

(***************************************************************************)
(* SpecNorm: normalize_rows_to_100 on frames of the shape                  *)
(* to_wide_by_country returns, of at most MaxNormRows rows; a row has the  *)
(* values of one entry of NormRows in its first three type columns and nan *)
(* in the other thirteen                                                   *)
(***************************************************************************)
NormRows ==
    << <<num(10), num(30), nan>>,
       <<num(0), num(0), num(0)>>,
       <<nan, nan, nan>>,
       <<num(10), num(-10), nan>>,
       <<num(10), num(-10), num(0)>>,
       <<num(5), num(5), num(10)>>,
       <<num(0), nan, num(0)>>,
       <<num(-10), num(-30), nan>>,
       <<num(1), num(2), nan>>,
       <<num(0), num(0), num(20)>>,
       <<nan, num(7), nan>>,
       <<num(30), num(-10), num(-10)>> >>

\* The most rows a frame of SpecNorm has.
MaxNormRows == 2

\* The wide frame whose rows are the entries rows[1], rows[2], ... of
\* NormRows, for the countries X, X, ...
WideOf(rows) ==
    <<Col(s_Country, [r \in DOMAIN rows |-> Str(s_X)])>>
    \o [k \in DOMAIN MBTI_TYPES |->
          Col(MBTI_TYPES[k],
              [r \in DOMAIN rows |-> IF k <= 3 THEN NormRows[rows[r]][k] ELSE nan])]

InitNorm ==
    /\ pc = "wide"
    /\ df = NoFrame
    /\ res1 = NoResult
    /\ res2 = NoResult
    /\ \E n \in 0..MaxNormRows : \E rows \in [1..n -> DOMAIN NormRows] : wide = WideOf(rows)
    /\ wide_norm = NoFrame
    /\ capitals_df = NoCapitals
    /\ geo = NoFrame
    /\ name_in = NoName
    /\ join_key = NoName

\* wide_norm = normalize_rows_to_100(wide, country_col)
Normalize ==
    /\ pc = "wide"
    /\ wide_norm' = normalize_rows_to_100(wide, s_Country)
    /\ pc' = "normalized"
    /\ UNCHANGED <<df, res1, res2, wide, capitals_df, geo, name_in, join_key>>

NextNorm == Normalize

SpecNorm == InitNorm /\ [][NextNorm]_vars

(***************************************************************************)
(* C2: every row of the normalised frame is either nan in all 16 types,    *)
(* exactly when the row had no number or its numbers sum to zero, or has   *)
(* value / rowSum * 100 wherever the row had a number (and nan elsewhere), *)
(* these values summing to 100; no value is infinite, and a zero row sum   *)
(* yields no 0.                                                            *)
(***************************************************************************)
RowOf(t, r) == [k \in DOMAIN MBTI_TYPES |-> t[k + 1].vals[r]]

C2_RowSums ==
    pc = "normalized" =>
      /\ Labels(wide_norm) = Labels(wide)
      /\ wide_norm[1] = wide[1]
      /\ \A r \in 1..NRows(wide) :
            LET in  == RowOf(wide, r)
                out == RowOf(wide_norm, r)
                present == {k \in DOMAIN in : in[k].k = "num"}
                rowSum == SumOver(in, present)
            IN  /\ \A k \in DOMAIN out : out[k].k \in {"num", "nan"}
                /\ (\A k \in DOMAIN out : isna(out[k])) <=> (present = {} \/ rowSum.n = 0)
                /\ (present # {} /\ rowSum.n # 0) =>
                      /\ \A k \in present :
                            out[k] = Float(in[k].n * rowSum.d * 100, in[k].d * rowSum.n)
                      /\ \A k \in DOMAIN out \ present : isna(out[k])
                      /\ SumOver(out, present) = Float(100, 1)

\* A normalised frame with a row that summed to zero without being all
\* zeros or all nan, and a row that did not.
C2_Witness ==
    /\ pc = "normalized"
    /\ \E r \in 1..NRows(wide) :
          /\ \E k \in 1..3 : RowOf(wide, r)[k].k = "num" /\ RowOf(wide, r)[k].n # 0
          /\ \A k \in 1..16 : isna(RowOf(wide_norm, r)[k])
    /\ \E r \in 1..NRows(wide) : SumOver(RowOf(wide_norm, r), {1, 2}) = Float(100, 1)

(***************************************************************************)
(* SpecNames: fix_name_for_join on every name of at most MaxNameLen        *)
(* characters of NameChars, on a few names written out in full, and on a   *)
(* missing name                                                            *)
(***************************************************************************)
s_USA == <<"U","S","A">>

s_U_S_A == <<"U",".","S",".","A">>

s_U_S_A_dot == <<"U",".","S",".","A",".">>

s_usa == <<"u","s","a">>

s_United_States_of_America ==
    <<"U","n","i","t","e","d"," ","S","t","a","t","e","s"," ","o","f"," ",
      "A","m","e","r","i","c","a">>

s_united_states_of_america == str_lower(s_United_States_of_America)

s_United_States == <<"U","n","i","t","e","d"," ","S","t","a","t","e","s">>

s_South_Korea == <<"S","o","u","t","h"," ","K","o","r","e","a">>

s_Korea_Republic_of ==
    <<"K","o","r","e","a",","," ","R","e","p","u","b","l","i","c"," ","o","f">>

s_Atlantis == <<"A","t","l","a","n","t","i","s">>

\* The characters a typed name is made of.
NameChars == {"U", "S", "A", "u", "s", "a", ".", " "}

\* The names written out in full.
FullNames ==
    {s_United_States_of_America, s_United_States, s_South_Korea,
     s_Korea_Republic_of, s_Atlantis, s_U_S_A_dot}

\* The most characters a typed name has.
MaxNameLen == 5

InitNames ==
    /\ pc = "name"
    /\ df = NoFrame
    /\ res1 = NoResult
    /\ res2 = NoResult
    /\ wide = NoFrame
    /\ wide_norm = NoFrame
    /\ capitals_df = NoCapitals
    /\ geo = NoFrame
    /\ name_in \in {Str(<<>>), nan} \cup {Str(n) : n \in FullNames}
    /\ join_key = NoName

\* One more character of a country name in the file that is read.
ReadNameChar ==
    /\ pc = "name"
    /\ isinstance_str(name_in)
    /\ Len(name_in.s) < MaxNameLen
    /\ \E c \in NameChars : name_in' = Str(Append(name_in.s, c))
    /\ UNCHANGED <<pc, df, res1, res2, wide, wide_norm, capitals_df, geo, join_key>>

\* .apply(fix_name_for_join) on one cell of the country column
JoinKey ==
    /\ pc = "name"
    /\ join_key' = fix_name_for_join(name_in)
    /\ pc' = "keyed"
    /\ UNCHANGED <<df, res1, res2, wide, wide_norm, capitals_df, geo, name_in>>

NextNames == ReadNameChar \/ JoinKey

SpecNames == InitNames /\ [][NextNames]_vars

(***************************************************************************)
(* C7: the join key of a name is the alias-table entry of its normalised   *)
(* form when the table has one and the normalised form itself otherwise;   *)
(* "USA", "U.S.A", "usa" and "United States of America" all get the key    *)
(* "united states of america".                                             *)
(***************************************************************************)
AliasKeys == {NAME_FIX[i][1] : i \in DOMAIN NAME_FIX}

AliasOf(k) == NAME_FIX[CHOOSE i \in DOMAIN NAME_FIX : NAME_FIX[i][1] = k][2]

UsaSpellings == {s_USA, s_U_S_A, s_usa, s_United_States_of_America}

C7_AliasOrNormalised ==
    pc = "keyed" =>
      /\ norm_name(name_in) \in AliasKeys => join_key = AliasOf(norm_name(name_in))
      /\ norm_name(name_in) \notin AliasKeys => join_key = norm_name(name_in)
      /\ (isinstance_str(name_in) /\ name_in.s \in UsaSpellings)
            => join_key = s_united_states_of_america

\* "U.S.A" has been keyed, to the key of "United States of America".
C7_Witness ==
    /\ pc = "keyed"
    /\ name_in = Str(s_U_S_A)
    /\ join_key = s_united_states_of_america
    /\ norm_name(name_in) \in AliasKeys

(***************************************************************************)
(* Capitals, join and climate zone                                         *)
(***************************************************************************)
s_join == <<"_","j","o","i","n">>

s_CountryName == <<"C","o","u","n","t","r","y","N","a","m","e">>

s_CapitalLatitude == <<"C","a","p","i","t","a","l","L","a","t","i","t","u","d","e">>

s_CapitalLongitude == <<"C","a","p","i","t","a","l","L","o","n","g","i","t","u","d","e">>

s_ContinentName == <<"C","o","n","t","i","n","e","n","t","N","a","m","e">>

s_Name == <<"N","a","m","e">>

s_Country_Name == <<"C","o","u","n","t","r","y"," ","N","a","m","e">>

s_Latitude == <<"L","a","t","i","t","u","d","e">>

s_Capital_Latitude == <<"C","a","p","i","t","a","l"," ","L","a","t","i","t","u","d","e">>

s_Longitude == <<"L","o","n","g","i","t","u","d","e">>

s_Capital_Longitude == <<"C","a","p","i","t","a","l"," ","L","o","n","g","i","t","u","d","e">>

s_Continent == <<"C","o","n","t","i","n","e","n","t">>

s_AbsLat == <<"A","b","s","L","a","t">>

s_ClimateZone == <<"C","l","i","m","a","t","e","Z","o","n","e">>

s_Unknown == <<"U","n","k","n","o","w","n">>

s_Tropical == <<"T","r","o","p","i","c","a","l">>

s_Subtropical == <<"S","u","b","t","r","o","p","i","c","a","l">>

s_Temperate == <<"T","e","m","p","e","r","a","t","e">>

s_Polar == <<"P","o","l","a","r">>

\* The zones with each boundary latitude in the lower zone.
classify_climate_inclusive(abs_lat) ==
    IF isna(abs_lat) THEN s_Unknown
    ELSE IF ~flt(Float(47, 2), abs_lat) THEN s_Tropical
    ELSE IF ~flt(Float(35, 1), abs_lat) THEN s_Subtropical
    ELSE IF ~flt(Float(60, 1), abs_lat) THEN s_Temperate
    ELSE s_Polar

classify_climate(abs_lat) ==
    IF isna(abs_lat) THEN s_Unknown
    ELSE IF flt(abs_lat, Float(47, 2)) THEN s_Tropical
    ELSE IF flt(abs_lat, Float(35, 1)) THEN s_Subtropical
    ELSE IF flt(abs_lat, Float(60, 1)) THEN s_Temperate
    ELSE s_Polar

\* df[name]: the cells of the one column that carries the label.
ColVals(t, name) == ColsNamed(t, name)[1].vals

\* df[name] = vals: the column is replaced where it stands, or added last.
SetCol(t, name, vals) ==
    IF HasCol(t, name)
    THEN [i \in DOMAIN t |-> IF t[i].name = name THEN Col(name, vals) ELSE t[i]]
    ELSE Append(t, Col(name, vals))

\* The rows of the result of left.merge(right, on=on, how=...), top to
\* bottom, as pairs <<row of left, row of right>>, 0 for no row of right:
\* the matches of a row of left follow the order of right.
RECURSIVE merge_pairs(_, _, _, _)
merge_pairs(lk, rk, i, keep_unmatched) ==
    IF i > Len(lk) THEN <<>>
    ELSE LET m == SelectSeq([j \in DOMAIN rk |-> j], LAMBDA j : rk[j] = lk[i])
         IN  (IF m = <<>>
              THEN (IF keep_unmatched THEN << <<i, 0>> >> ELSE <<>>)
              ELSE [x \in DOMAIN m |-> <<i, m[x]>>])
             \o merge_pairs(lk, rk, i + 1, keep_unmatched)

\* The frame of the pairs P: the columns of left, then those of right but
\* the key.
merge_frame(left, right, on, P) ==
    LET rest == SelectSeq(right, LAMBDA c : c.name # on)
    IN  [c \in DOMAIN left |->
           Col(left[c].name, [p \in DOMAIN P |-> left[c].vals[P[p][1]]])]
        \o [c \in DOMAIN rest |->
              Col(rest[c].name,
                  [p \in DOMAIN P |->
                     IF P[p][2] = 0 THEN nan ELSE rest[c].vals[P[p][2]]])]

\* An inner join: the rows of left without a match are dropped.
merge_inner(left, right, on) ==
    merge_frame(left, right, on,
                merge_pairs(ColVals(left, on), ColVals(right, on), 1, FALSE))

\* A join that takes the first match only.
merge_first_match(left, right, on) ==
    LET P == merge_pairs(ColVals(left, on), ColVals(right, on), 1, TRUE)
    IN  merge_frame(left, right, on,
                    SelectSeq(P, LAMBDA p : \A q \in Range(P) :
                                               q[1] = p[1] => q[2] >= p[2]))

\* left.merge(right, on=on, how="left")
merge_left(left, right, on) ==
    merge_frame(left, right, on,
                merge_pairs(ColVals(left, on), ColVals(right, on), 1, TRUE))

\* The header variants the script accepts, in dict order.
HeaderAlts ==
    << <<s_CountryName, <<s_CountryName, s_Country, s_Name, s_Country_Name>> >>,
       <<s_CapitalLatitude, <<s_CapitalLatitude, s_Latitude, s_Capital_Latitude>> >>,
       <<s_CapitalLongitude, <<s_CapitalLongitude, s_Longitude, s_Capital_Longitude>> >>,
       <<s_ContinentName, <<s_ContinentName, s_Continent>> >> >>

\* The loop over HeaderAlts from entry i on: a needed label that is absent
\* takes the place of its first alternative that is present.
RECURSIVE lenient_headers(_, _)
lenient_headers(caps, i) ==
    IF i > Len(HeaderAlts) THEN caps
    ELSE LET need == HeaderAlts[i][1]
             alts == HeaderAlts[i][2]
             found == {a \in DOMAIN alts : HasCol(caps, alts[a])}
         IN  IF HasCol(caps, need) \/ found = {}
             THEN lenient_headers(caps, i + 1)
             ELSE lenient_headers(Rename(caps, << <<alts[SetMin(found)], need>> >>), i + 1)

CapsColumns ==
    <<s_join, s_CountryName, s_CapitalLatitude, s_CapitalLongitude, s_ContinentName>>

\* The reference frame the merge takes: [ok, caps, continent_col]; ok is
\* FALSE where the script raises KeyError.
prepare_caps(capitals) ==
    IF capitals.loaded
    THEN LET caps == lenient_headers(capitals.frame, 1)
         IN  IF \E i \in 2..5 : Len(ColsNamed(caps, CapsColumns[i])) # 1
             THEN [ok |-> FALSE, caps |-> <<>>, continent_col |-> None]
             ELSE [ok |-> TRUE,
                   caps |-> Select(SetCol(caps, s_join,
                                          [r \in 1..NRows(caps) |->
                                             Str(fix_name_for_join(ColVals(caps, s_CountryName)[r]))]),
                                   CapsColumns),
                   continent_col |-> s_ContinentName]
    ELSE [ok |-> TRUE,
          caps |-> [i \in DOMAIN CapsColumns |-> Col(CapsColumns[i], <<>>)],
          continent_col |-> None]

\* fillna("Unknown") on one cell
fillna_Unknown(x) == IF isna(x) THEN Str(s_Unknown) ELSE x

\* The script from the join keys to the Continent column.
geo_table(w, country_col, capitals) ==
    LET left == SetCol(w, s_join,
                       [r \in 1..NRows(w) |-> Str(fix_name_for_join(ColVals(w, country_col)[r]))])
        prep == prepare_caps(capitals)
        g0 == merge_left(left, prep.caps, s_join)
        g1 == SetCol(g0, s_AbsLat,
                     [r \in 1..NRows(g0) |-> fabs(ColVals(g0, s_CapitalLatitude)[r])])
        g2 == SetCol(g1, s_ClimateZone,
                     [r \in 1..NRows(g1) |-> Str(classify_climate(ColVals(g1, s_AbsLat)[r]))])
        g3 == SetCol(g2, s_Continent,
                     [r \in 1..NRows(g2) |->
                        fillna_Unknown(IF prep.continent_col = None
                                       THEN Str(s_Unknown)
                                       ELSE ColVals(g2, prep.continent_col)[r])])
    IN  [ok |-> prep.ok, left |-> left, geo |-> IF prep.ok THEN g3 ELSE NoFrame]

(***************************************************************************)
(* SpecGeo: the capitals load, the join and the climate zones, for every   *)
(* normalised frame of at most MaxGeoRows countries of GeoNames and every  *)
(* capitals file of at most MaxCapRows rows of CapRows under one of the    *)
(* headers of CapHeaders, or no capitals file at all                       *)
(***************************************************************************)
s_North_America == <<"N","o","r","t","h"," ","A","m","e","r","i","c","a">>

s_Asia == <<"A","s","i","a">>

s_Lat == <<"L","a","t">>

\* The country names of the normalised frame.
GeoNames == <<Str(s_USA), Str(s_South_Korea), Str(<<" ">>), Str(s_Atlantis)>>

\* The rows of a capitals file: name, latitude, longitude, continent.
CapRows ==
    << <<Str(s_United_States), Float(35, 1), Float(-77, 1), Str(s_North_America)>>,
       <<Str(s_United_States_of_America), Float(47, 2), Float(-77, 1), Str(s_North_America)>>,
       <<Str(s_usa), Float(-21, 2), Float(-77, 1), nan>>,
       <<Str(s_Korea_Republic_of), Float(-60, 1), Float(127, 1), Str(s_Asia)>>,
       <<nan, nan, nan, nan>>,
       <<Str(<<" ", " ">>), Float(-349, 10), Float(0, 1), Str(s_Asia)>> >>

\* The header lines of a capitals file; the last has no latitude the
\* script knows.
CapHeaders ==
    << <<s_CountryName, s_CapitalLatitude, s_CapitalLongitude, s_ContinentName>>,
       <<s_Country, s_Capital_Latitude, s_Longitude, s_Continent>>,
       <<s_Name, s_Lat, s_CapitalLongitude, s_ContinentName>> >>

\* The most rows of the normalised frame.
MaxGeoRows == 2

\* The most rows of a capitals file.
MaxCapRows == 2

\* The normalised frame of the countries names[1], names[2], ..., every
\* type at 6.25.
WideNormOf(names) ==
    <<Col(s_Country, names)>>
    \o [k \in DOMAIN MBTI_TYPES |->
          Col(MBTI_TYPES[k], [r \in DOMAIN names |-> Float(25, 4)])]

\* The frame read from the capitals file of header h and rows rows[1], ...
CapitalsOf(h, rows) ==
    [c \in 1..4 |-> Col(CapHeaders[h][c], [r \in DOMAIN rows |-> CapRows[rows[r]][c]])]

InitGeo ==
    /\ pc = "normalized"
    /\ df = NoFrame
    /\ res1 = NoResult
    /\ res2 = NoResult
    /\ wide = NoFrame
    /\ \E n \in 0..MaxGeoRows : \E names \in [1..n -> Range(GeoNames)] :
          wide_norm = WideNormOf(names)
    /\ capitals_df = NoCapitals
    /\ geo = NoFrame
    /\ name_in = NoName
    /\ join_key = NoName

\* The try block: the capitals file is read ...
LoadCapitals ==
    /\ pc = "normalized"
    /\ \E h \in DOMAIN CapHeaders : \E n \in 0..MaxCapRows :
          \E rows \in [1..n -> DOMAIN CapRows] :
             capitals_df' = [loaded |-> TRUE, frame |-> CapitalsOf(h, rows)]
    /\ pc' = "loaded"
    /\ UNCHANGED <<df, res1, res2, wide, wide_norm, geo, name_in, join_key>>

\* ... or reading it raises, and capitals_df stays None.
LoadCapitalsFails ==
    /\ pc = "normalized"
    /\ capitals_df' = NoCapitals
    /\ pc' = "loaded"
    /\ UNCHANGED <<df, res1, res2, wide, wide_norm, geo, name_in, join_key>>

\* The script from the join keys to the Continent column; a KeyError ends
\* the run after wide_norm got its keys.
JoinGeo ==
    /\ pc = "loaded"
    /\ LET g == geo_table(wide_norm, s_Country, capitals_df)
       IN  /\ wide_norm' = g.left
           /\ geo' = g.geo
           /\ pc' = IF g.ok THEN "geo" ELSE "crashed"
    /\ UNCHANGED <<df, res1, res2, wide, capitals_df, name_in, join_key>>

NextGeo == LoadCapitals \/ LoadCapitalsFails \/ JoinGeo

SpecGeo == InitGeo /\ [][NextGeo]_vars

(***************************************************************************)
(* C8: in every row of the geo frame the climate zone is the step function *)
(* of the absolute capital latitude: Unknown without a latitude, Tropical  *)
(* below 23.5, Subtropical from 23.5 to below 35, Temperate from 35 to     *)
(* below 60, Polar from 60 on; it is one of these five, never empty.       *)
(***************************************************************************)
\* The zone of the latitude n/d (d > 0), by the intervals of the claim.
ZoneOf(lat) ==
    IF lat.k # "num" THEN s_Unknown
    ELSE LET a == Abs(lat.n) d == lat.d
         IN  CASE 2 * a < 47 * d -> s_Tropical
               [] 2 * a >= 47 * d /\ a < 35 * d -> s_Subtropical
               [] a >= 35 * d /\ a < 60 * d -> s_Temperate
               [] a >= 60 * d -> s_Polar

C8_ZoneStep ==
    pc = "geo" =>
      \A r \in 1..NRows(geo) :
         LET zone == ColVals(geo, s_ClimateZone)[r]
         IN  /\ zone = Str(ZoneOf(ColVals(geo, s_CapitalLatitude)[r]))
             /\ zone.s \in {s_Unknown, s_Tropical, s_Subtropical, s_Temperate, s_Polar}
             /\ zone.s # <<>>

\* A geo frame with a capital at 23.5 North (Subtropical) and one at 60
\* South (Polar).
C8_Witness ==
    /\ pc = "geo"
    /\ \E r \in 1..NRows(geo) :
          /\ ColVals(geo, s_CapitalLatitude)[r] = Float(47, 2)
          /\ ColVals(geo, s_ClimateZone)[r] = Str(s_Subtropical)
    /\ \E r \in 1..NRows(geo) :
          /\ ColVals(geo, s_CapitalLatitude)[r] = Float(-60, 1)
          /\ ColVals(geo, s_ClimateZone)[r] = Str(s_Polar)

(***************************************************************************)
(* C9: when the capitals load fails the run does not stop: the geo frame   *)
(* has every row of the normalised frame, in order, with no latitude and   *)
(* no longitude, and with continent and climate zone Unknown.              *)
(***************************************************************************)
LoadFailed == pc \in {"geo", "crashed"} /\ ~capitals_df.loaded

C9_LoadFailureUnknown ==
    LoadFailed =>
      /\ pc = "geo"
      /\ NRows(geo) = NRows(wide_norm)
      /\ \A c \in DOMAIN wide_norm : geo[c] = wide_norm[c]
      /\ \A r \in 1..NRows(geo) :
            /\ isna(ColVals(geo, s_CapitalLatitude)[r])
            /\ isna(ColVals(geo, s_CapitalLongitude)[r])
            /\ ColVals(geo, s_Continent)[r] = Str(s_Unknown)
            /\ ColVals(geo, s_ClimateZone)[r] = Str(s_Unknown)

\* The load failed and the geo frame has two rows.
C9_Witness ==
    /\ LoadFailed
    /\ pc = "geo"
    /\ NRows(geo) = 2
    /\ ColVals(geo, s_Continent) = <<Str(s_Unknown), Str(s_Unknown)>>

(***************************************************************************)
(* C10: the rows of the geo frame against those of the normalised frame    *)
(***************************************************************************)
\* The join keys of the capitals file, row by row.
CapKeys == [r \in 1..NRows(capitals_df.frame) |->
              Str(fix_name_for_join(capitals_df.frame[1].vals[r]))]

\* The rows of a column that hold the key k.
RowsWith(keys, k) == {r \in DOMAIN keys : keys[r] = k}

\* C10 as claimed: the geo frame has exactly one row for each row of the
\* normalised frame, the same countries in the same order.
C10_OneRowEach ==
    pc = "geo" =>
      /\ NRows(geo) = NRows(wide_norm)
      /\ ColVals(geo, s_Country) = ColVals(wide_norm, s_Country)

\* The rows of the normalised frame from row i on, each as often as C10
\* as amended has it: once when no key of rk is its key, otherwise once
\* for every key of rk that is.
RECURSIVE RowPerMatch(_, _, _)
RowPerMatch(lk, rk, i) ==
    IF i > Len(lk) THEN <<>>
    ELSE LET n == Cardinality(RowsWith(rk, lk[i]))
         IN  [x \in 1..(IF n = 0 THEN 1 ELSE n) |-> i] \o RowPerMatch(lk, rk, i + 1)

\* C10 as amended: no row of the normalised frame is dropped, and a row
\* appears once when no row of the capitals file has its join key and
\* otherwise once for every row of the capitals file that has it; the
\* rows keep their order.
C10_OneRowPerMatch ==
    pc = "geo" =>
      LET rows == RowPerMatch(ColVals(wide_norm, s_join),
                              IF capitals_df.loaded THEN CapKeys ELSE <<>>, 1)
      IN  /\ NRows(geo) = Len(rows)
          /\ \A c \in DOMAIN wide_norm :
                geo[c] = Col(wide_norm[c].name,
                             [r \in DOMAIN rows |-> wide_norm[c].vals[rows[r]]])

\* Two names of the capitals file resolve to the key of a country of the
\* normalised frame, which is in the geo frame twice, next to a country
\* without a match, which is there once.
C10_Witness ==
    /\ pc = "geo"
    /\ capitals_df.loaded
    /\ \E k \in Range(CapKeys) :
          /\ Cardinality(RowsWith(CapKeys, k)) = 2
          /\ Cardinality(RowsWith(ColVals(wide_norm, s_join), k)) = 1
          /\ Cardinality(RowsWith(ColVals(geo, s_join), k)) = 2
    /\ \E r \in 1..NRows(geo) :
          /\ ColVals(geo, s_join)[r] \notin Range(CapKeys)
          /\ isna(ColVals(geo, s_CountryName)[r])

(***************************************************************************)
(* C11: for every input string the output of norm_name is in canonical     *)
(* form: lower-case, without leading or trailing whitespace and without a  *)
(* run of two or more whitespace characters; names that differ only in     *)
(* punctuation or spacing, leading or trailing punctuation included, get   *)
(* the same key, the words of the name in lower case with one space        *)
(* between them; and norm_name(norm_name(s)) = norm_name(s).               *)
(***************************************************************************)
\* The words of s, left to right: its maximal runs of word characters,
\* whatever punctuation or spacing stands between and around them.
RECURSIVE WordsOf(_, _)
WordsOf(s, word) ==
    IF s = <<>> THEN (IF word = <<>> THEN <<>> ELSE <<word>>)
    ELSE IF Head(s) \in WordChars THEN WordsOf(Tail(s), Append(word, Head(s)))
    ELSE (IF word = <<>> THEN <<>> ELSE <<word>>) \o WordsOf(Tail(s), <<>>)

\* The words ws with one space between them.
RECURSIVE JoinWords(_)
JoinWords(ws) ==
    IF ws = <<>> THEN <<>>
    ELSE IF Len(ws) = 1 THEN ws[1]
    ELSE ws[1] \o <<" ">> \o JoinWords(Tail(ws))

\* lower-case, no whitespace at either end, no two whitespace characters
\* in a row
IsCanonical(k) ==
    /\ \A i \in DOMAIN k : k[i] \notin UpperSet
    /\ k # <<>> => (k[1] \notin WhiteSpace /\ k[Len(k)] \notin WhiteSpace)
    /\ \A i \in 1..(Len(k) - 1) : ~(k[i] \in WhiteSpace /\ k[i + 1] \in WhiteSpace)

C11_CanonicalKey ==
    (pc = "keyed" /\ isinstance_str(name_in)) =>
      LET k == norm_name(name_in)
      IN  /\ IsCanonical(k)
          /\ k = JoinWords(WordsOf(str_lower(name_in.s), <<>>))
          /\ norm_name(Str(k)) = k

====
